---- MODULE Spec2Model ----
(***************************************************************************)
(* A model of the data-transfer engine                                     *)
(* (packages/core/data-transfer/lib/engine/index.ts): the two compatibility *)
(* checks, the provider lifecycle (boostrap / close), integrityCheck, the   *)
(* four relay stages and the data they pipe, transferMedia and the          *)
(* top-level transfer().                                                    *)
(***************************************************************************)
EXTENDS Naturals, Sequences, FiniteSets, TLC

\* ------------------------------------------------------------------ bounds

\* Longest version string (in characters) the version check is applied to.
MaxVerLen == 5

\* Number of distinct type names that may occur in a schema map.
MaxTypes == 2

\* Number of items a source stream may hold.
MaxItems == 4

\* Largest number of items a destination stream buffers before it reports full.
MaxHighWaterMark == 3

\* Number of events one stream of a relay stage may emit.
MaxEvents == 2

VARIABLES
    options,    \* this.options: [versionMatching, schemasMatching]
    call,       \* the private checker invoked in isolation, with its arguments
    ret,        \* what that invocation did: returned or threw
    calcCalls,  \* type names calculateSchemaDiffs has been invoked for, in order
    entry,      \* the engine operation the caller invoked
    cur,        \* the engine operation now running ("none": none)
    at,         \* the await point the running operation is suspended at
    tpc,        \* transfer(): index in TransferSteps of the step last started
    p,          \* the promise of the operation last started
    tresult,    \* the promise transfer() returned to its caller
    caught,     \* the error transfer()'s catch block received
    hook,       \* boostrap()/close(): state of each provider's hook call
    ic,         \* integrityCheck(): its four fetched locals
    inStream,   \* relay stage: the source stream
    outStream,  \* relay stage: the destination stream
    log,        \* history: operations started and ended, provider calls
    events,     \* relay stage: the events its two streams emitted, in order
    relay       \* the data flowing through one piped pair of streams

pureVars == <<call, ret, calcCalls>>

engineVars == <<entry, cur, at, tpc, p, tresult, caught, hook, ic, inStream, outStream, log,
               events>>

vars == <<options, call, ret, calcCalls, entry, cur, at, tpc, p, tresult, caught, hook,
          ic, inStream, outStream, log, events, relay>>

\* ------------------------------------------------------------------ values

\* An Error object: the fixed text of its message and the interpolated values.
Err(message, args) == [message |-> message, args |-> args]

NoError == Err("", <<>>)

\* Outcome of a synchronous call: normal return, or a thrown Error.
Returned == [threw |-> FALSE, error |-> NoError]

Threw(e) == [threw |-> TRUE, error |-> e]

NotCalled == [threw |-> FALSE, error |-> Err("not called", <<>>)]

\* ------------------------------------------------------- version integrity

\* A version string is a sequence of characters; "." separates components and
\* two components differ as soon as their characters differ ("1" vs "11").
Chars == {"1", "."}

StringsUpTo(n) == UNION {[1..k -> Chars] : k \in 0..n}

\* `undefined`, for an optional string.
NoVersion == <<"undefined">>

VersionStrategies == {"ignore", "exact", "major", "minor", "patch"}

\* !v for an optional string: undefined and the empty string are falsy.
Falsy(v) == v = NoVersion \/ v = <<>>

\* String.prototype.split('.'): the components between the separators; the
\* empty string splits to one empty component.
RECURSIVE SplitFrom(_, _, _)
SplitFrom(s, i, acc) ==
    IF i > Len(s) THEN <<acc>>
    ELSE IF s[i] = "." THEN <<acc>> \o SplitFrom(s, i + 1, <<>>)
    ELSE SplitFrom(s, i + 1, Append(acc, s[i]))

Split(s) == SplitFrom(s, 1, <<>>)

\* sourceTokens.map((value, index) => value === destinationTokens[index])[i-1],
\* as a condition: an index past the end of either array gives undefined/false.
TokenMatch(sourceTokens, destinationTokens, i) ==
    /\ i <= Len(sourceTokens)
    /\ i <= Len(destinationTokens)
    /\ sourceTokens[i] = destinationTokens[i]

VersionMismatch(strategy, sourceVersion, destinationVersion) ==
    Err("Strapi versions doesn't match (${strategy} check): ${sourceVersion} does not match with ${destinationVersion}",
        <<strategy, sourceVersion, destinationVersion>>)

\* Faulty variant: 'exact' accepts any pair of versions.
ExactShortcutAlways(strategy, sourceVersion, destinationVersion) ==
    strategy = "exact"

ExactShortcut(strategy, sourceVersion, destinationVersion) ==
    strategy = "exact" /\ sourceVersion = destinationVersion

assertStrapiVersionIntegrity(strategy, sourceVersion, destinationVersion) ==
    IF Falsy(sourceVersion) \/ Falsy(destinationVersion) THEN Returned
    ELSE IF strategy = "ignore" THEN Returned
    ELSE IF ExactShortcut(strategy, sourceVersion, destinationVersion) THEN Returned
    ELSE
      LET sourceTokens == Split(sourceVersion)
          destinationTokens == Split(destinationVersion)
          major == TokenMatch(sourceTokens, destinationTokens, 1)
          minor == TokenMatch(sourceTokens, destinationTokens, 2)
          patch == TokenMatch(sourceTokens, destinationTokens, 3)
      IN IF \/ (strategy = "major" /\ major)
            \/ (strategy = "minor" /\ major /\ minor)
            \/ (strategy = "patch" /\ major /\ minor /\ patch)
         THEN Returned
         ELSE Threw(VersionMismatch(strategy, sourceVersion, destinationVersion))

\* -------------------------------------------------------- schema integrity

\* A schema description: the set of attribute names of the type.
Attributes == {"title", "createdAt"}

Schemas == SUBSET Attributes

\* sourceSchemas[key] for a key the map does not hold.
NoSchema == {"undefined"}

TypeNames == 1..MaxTypes

\* A schema map: a function from the type names it holds to their schemas.
SchemaMaps == UNION {[D -> Schemas] : D \in SUBSET TypeNames}

SchemaStrategies == {"strict", "exact"}

\* options.schemasMatching left unset.
NoStrategy == "undefined"

Lookup(m, key) == IF key \in DOMAIN m THEN m[key] ELSE NoSchema

\* Object.keys(m) as a sequence (the order plays no part in the check).
RECURSIVE KeysFrom(_, _)
KeysFrom(m, k) ==
    IF k > MaxTypes THEN <<>>
    ELSE (IF k \in DOMAIN m THEN <<k>> ELSE <<>>) \o KeysFrom(m, k + 1)

ObjectKeys(m) == KeysFrom(m, 1)

\* lodash uniq: the first occurrence of each element, in order.
RECURSIVE Uniq(_)
Uniq(s) ==
    IF s = <<>> THEN <<>>
    ELSE LET front == Uniq(SubSeq(s, 1, Len(s) - 1))
             last == s[Len(s)]
         IN IF \E i \in 1..Len(front) : front[i] = last THEN front
            ELSE Append(front, last)

\* The diff calculator (lib/strategies): the list of discrepancies between two
\* schemas and one verdict per strategy. `exact` accepts no discrepancy,
\* `strict` ignores the timestamp attribute.
SchemaDiffList(sourceSchema, destinationSchema) ==
    IF sourceSchema = NoSchema /\ destinationSchema = NoSchema THEN {}
    ELSE IF sourceSchema = NoSchema THEN {[kind |-> "added", path |-> "*"]}
    ELSE IF destinationSchema = NoSchema THEN {[kind |-> "deleted", path |-> "*"]}
    ELSE {[kind |-> "deleted", path |-> a] : a \in sourceSchema \ destinationSchema}
         \cup {[kind |-> "added", path |-> a] : a \in destinationSchema \ sourceSchema}

calculateSchemaDiffs(sourceSchema, destinationSchema) ==
    LET diffs == SchemaDiffList(sourceSchema, destinationSchema)
    IN [diffs |-> diffs,
        exact |-> diffs = {},
        strict |-> {d \in diffs : d.path # "createdAt"} = {}]

Verdict(schemaDiffs, chosenStrategy) ==
    IF chosenStrategy = "exact" THEN schemaDiffs.exact ELSE schemaDiffs.strict

ChosenStrategy(schemasMatching) ==
    IF schemasMatching = NoStrategy THEN "strict" ELSE schemasMatching

\* uniq(Object.keys(sourceSchemas).concat(Object.keys(destinationSchemas)))
SchemaKeys(sourceSchemas, destinationSchemas) ==
    Uniq(ObjectKeys(sourceSchemas) \o ObjectKeys(destinationSchemas))

SchemaMismatch(diffs) ==
    Err("Import process failed because the project doesn't have a matching data structure ${JSON.stringify(diffs, null, 2)}",
        <<diffs>>)

\* Faulty variant: the loop stops at the first invalid type.
CollectDiffsFirstOnly(keys, sourceSchemas, destinationSchemas, chosenStrategy) ==
    LET bad == {i \in 1..Len(keys) :
                  ~Verdict(calculateSchemaDiffs(Lookup(sourceSchemas, keys[i]),
                                                Lookup(destinationSchemas, keys[i])),
                           chosenStrategy)}
        first == {i \in bad : \A j \in bad : i <= j}
    IN [key \in {keys[i] : i \in first} |->
          calculateSchemaDiffs(Lookup(sourceSchemas, key),
                               Lookup(destinationSchemas, key)).diffs]

\* The keys.forEach loop: diffs[key] = schemaDiffs.diffs for every key whose
\* verdict under the chosen strategy is false.
CollectDiffs(keys, sourceSchemas, destinationSchemas, chosenStrategy) ==
    LET invalid == {keys[i] : i \in {j \in 1..Len(keys) :
                      ~Verdict(calculateSchemaDiffs(Lookup(sourceSchemas, keys[j]),
                                                    Lookup(destinationSchemas, keys[j])),
                               chosenStrategy)}}
    IN [key \in invalid |->
          calculateSchemaDiffs(Lookup(sourceSchemas, key),
                               Lookup(destinationSchemas, key)).diffs]

\* isEmpty(diffs) for an object: it has no key.
IsEmptyObject(o) == DOMAIN o = {}

assertSchemasMatching(schemasMatching, sourceSchemas, destinationSchemas) ==
    LET chosenStrategy == ChosenStrategy(schemasMatching)
        keys == SchemaKeys(sourceSchemas, destinationSchemas)
        diffs == CollectDiffs(keys, sourceSchemas, destinationSchemas, chosenStrategy)
    IN IF ~IsEmptyObject(diffs) THEN Threw(SchemaMismatch(diffs)) ELSE Returned

\* ---------------------------------------------------------- engine values

Sides == {"source", "destination"}

\* The operations an engine instance exposes.
RelayStages ==
    {"transferSchemas", "transferEntities", "transferLinks", "transferConfiguration"}

Ops == {"transfer", "boostrap", "close", "integrityCheck", "transferMedia"} \cup RelayStages

\* A promise: pending, fulfilled with a value, or rejected with a reason.
NoPromise == [state |-> "none", value |-> TRUE, reason |-> NoError]

Pending == [state |-> "pending", value |-> TRUE, reason |-> NoError]

Fulfilled(v) == [state |-> "fulfilled", value |-> v, reason |-> NoError]

Rejected(e) == [state |-> "rejected", value |-> TRUE, reason |-> e]

\* An error thrown by (or a rejection of) a provider's own hook or accessor.
ProviderError(side, name) == Err("provider failure", <<side, name>>)

\* Calling a hook the provider does not define, without optional chaining.
NotAFunction(side, name) == Err("${name} is not a function", <<side, name>>)

\* The value of the n-th 'error' event a stream of a relay stage emits.
StreamError(side, n) == Err("stream failure", <<side, n>>)

\* The n-th event a stream of a relay stage emits, as the log of events keeps it.
StreamEvent(side, ev, n) == [side |-> side, ev |-> ev, n |-> n]

\* No pair of streams is piped (the engine's control flow is modelled apart
\* from the data that flows through a stage).
RelayIdle ==
    [total |-> 0, highWaterMark |-> 0, read |-> 0, flowing |-> FALSE, buffer |-> <<>>,
     needDrain |-> FALSE, accepted |-> <<>>, ended |-> FALSE, closed |-> FALSE]

IntegrityError ==
    Err("Unable to transfer the data between ${this.sourceProvider.name} and ${this.destinationProvider.name}.\nPlease refer to the log above for more information.",
        <<"sourceProvider.name", "destinationProvider.name">>)

\* History entries.
Started(op) == [t |-> "start", who |-> "engine", what |-> op, res |-> ""]

Ended(op, res) == [t |-> "end", who |-> "engine", what |-> op, res |-> res]

Called(side, name) == [t |-> "call", who |-> side, what |-> name, res |-> ""]

HookSettled(side, name, res) == [t |-> "settle", who |-> side, what |-> name, res |-> res]

\* How the history names the way an operation's promise settled.
ResultName(op, promise) ==
    IF promise.state = "rejected" THEN "rejected"
    ELSE IF op = "integrityCheck" THEN (IF promise.value THEN "true" ELSE "false")
    ELSE "fulfilled"

\* boostrap() and close(): the name of the provider hook each one calls.
HookName(op) == IF op = "boostrap" THEN "bootstrap" ELSE "close"

IdleHooks == [name |-> "none", source |-> "idle", destination |-> "idle"]

\* integrityCheck(): a local before its fetch, and the values a fetch can give.
Unfetched == [kind |-> "unfetched", version |-> NoVersion, map |-> <<>>]

FetchFailed(kind) == [kind |-> kind, version |-> NoVersion, map |-> <<>>]

Nothing == [kind |-> "nothing", version |-> NoVersion, map |-> <<>>]

EngineVersions == {<<"1", ".", "1">>, <<"1", ".", "1", "1">>}

\* A metadata record, with or without strapi.version.
MetadataValues ==
    {[kind |-> "value", version |-> v, map |-> <<>>] : v \in EngineVersions \cup {NoVersion}}

\* The schema maps the providers of the engine model may return.
EngineSchemaMaps == UNION {[D -> Schemas] : D \in SUBSET {1}}

SchemaValues == {[kind |-> "value", version |-> NoVersion, map |-> m] : m \in EngineSchemaMaps}

IdleCheck ==
    [sourceMetadata |-> Unfetched, destinationMetadata |-> Unfetched,
     sourceSchemas |-> Unfetched, destinationSchemas |-> Unfetched]

\* if (x): a fetched local is truthy when the hook returned an object.
Truthy(x) == x.kind = "value"

\* A relay stage's stream: not yet asked for, missing, or a stream object with
\* the listeners the engine attached, whether it is piped, and what it emitted.
NoStream == [kind |-> "unfetched", listeners |-> {}, piped |-> FALSE, emitted |-> <<>>]

MissingStream == [kind |-> "missing", listeners |-> {}, piped |-> FALSE, emitted |-> <<>>]

NewStream == [kind |-> "stream", listeners |-> {}, piped |-> FALSE, emitted |-> <<>>]

\* The provider accessor a stage calls on each side.
Accessor(op, side) ==
    CASE op = "transferSchemas" ->
           (IF side = "source" THEN "streamSchemas" ELSE "getSchemasStream")
      [] op = "transferEntities" ->
           (IF side = "source" THEN "streamEntities" ELSE "getEntitiesStream")
      [] op = "transferLinks" ->
           (IF side = "source" THEN "streamLinks" ELSE "getLinksStream")
      [] op = "transferConfiguration" ->
           (IF side = "source" THEN "streamConfiguration" ELSE "getConfigurationStream")
      [] OTHER -> "none"

StreamAccessors == {Accessor(op, side) : op \in RelayStages, side \in Sides}

\* The Error each stage throws for a stream it did not get.
MissingStreamError(op, side) ==
    CASE op = "transferSchemas" /\ side = "source" ->
           Err("Unable to transfer schemas, source stream is missing", <<>>)
      [] op = "transferSchemas" /\ side = "destination" ->
           Err("Unable to transfer schemas, destination stream is missing", <<>>)
      [] op = "transferEntities" /\ side = "source" ->
           Err("Unable to transfer entities, source stream is missing", <<>>)
      [] op = "transferEntities" /\ side = "destination" ->
           Err("Unable to transfer entities, destination stream is missing", <<>>)
      [] op = "transferLinks" /\ side = "source" ->
           Err("Unable to transfer links, source stream is missing", <<>>)
      [] op = "transferLinks" /\ side = "destination" ->
           Err("Unable to transfer links, destination stream is missing", <<>>)
      [] op = "transferConfiguration" /\ side = "source" ->
           Err("Unable to transfer configuration, source stream is missing", <<>>)
      [] op = "transferConfiguration" /\ side = "destination" ->
           Err("Unable to transfer configuration, destination stream is missing", <<>>)

\* Faulty variant: links are transferred before media.
TransferStepsLinksBeforeMedia ==
    <<"boostrap", "integrityCheck", "transferSchemas", "transferEntities",
      "transferLinks", "transferMedia", "transferConfiguration", "close">>

\* Faulty variant: the providers are never closed.
TransferStepsWithoutClose ==
    <<"boostrap", "integrityCheck", "transferSchemas", "transferEntities",
      "transferMedia", "transferLinks", "transferConfiguration">>

\* The steps transfer() awaits, in the order of its body.
TransferSteps ==
    <<"boostrap", "integrityCheck", "transferSchemas", "transferEntities",
      "transferMedia", "transferLinks", "transferConfiguration", "close">>

\* No engine operation has been invoked (the checkers run in isolation).
EngineIdle ==
    /\ entry = "none"
    /\ cur = "none"
    /\ at = "idle"
    /\ tpc = 0
    /\ p = NoPromise
    /\ tresult = NoPromise
    /\ caught = NoError
    /\ hook = IdleHooks
    /\ ic = IdleCheck
    /\ inStream = NoStream
    /\ outStream = NoStream
    /\ log = <<>>
    /\ events = <<>>

\* ------------------------------------------- the checkers run in isolation

NoCall == [fn |-> "none"]

OptionSets ==
    [versionMatching : VersionStrategies,
     schemasMatching : SchemaStrategies \cup {NoStrategy}]

InitVersion ==
    /\ options \in {o \in OptionSets : o.schemasMatching = NoStrategy}
    /\ \E sv \in StringsUpTo(MaxVerLen) \cup {NoVersion},
          dv \in StringsUpTo(MaxVerLen) \cup {NoVersion} :
         call = [fn |-> "assertStrapiVersionIntegrity",
                 sourceVersion |-> sv, destinationVersion |-> dv]
    /\ ret = NotCalled
    /\ calcCalls = <<>>
    /\ EngineIdle
    /\ relay = RelayIdle

RunVersionCheck ==
    /\ call.fn = "assertStrapiVersionIntegrity"
    /\ ret = NotCalled
    /\ ret' = assertStrapiVersionIntegrity(options.versionMatching,
                                           call.sourceVersion, call.destinationVersion)
    /\ UNCHANGED <<options, call, calcCalls>>
    /\ UNCHANGED <<engineVars, relay>>

NextVersion == RunVersionCheck

SpecVersion == InitVersion /\ [][NextVersion]_vars

InitSchemas ==
    /\ options \in {o \in OptionSets : o.versionMatching = "exact"}
    /\ \E s \in SchemaMaps, d \in SchemaMaps :
         call = [fn |-> "assertSchemasMatching",
                 sourceSchemas |-> s, destinationSchemas |-> d]
    /\ ret = NotCalled
    /\ calcCalls = <<>>
    /\ EngineIdle
    /\ relay = RelayIdle

RunSchemaCheck ==
    /\ call.fn = "assertSchemasMatching"
    /\ ret = NotCalled
    /\ ret' = assertSchemasMatching(options.schemasMatching,
                                    call.sourceSchemas, call.destinationSchemas)
    /\ calcCalls' = SchemaKeys(call.sourceSchemas, call.destinationSchemas)
    /\ UNCHANGED <<options, call>>
    /\ UNCHANGED <<engineVars, relay>>

NextSchemas == RunSchemaCheck

SpecSchemas == InitSchemas /\ [][NextSchemas]_vars

\* ------------------------------------------------------ engine operations

\* One action per stretch of code between two awaits. What a provider hook or
\* accessor is (defined or not) and does is chosen when the engine calls it:
\* each is called at most once per invocation. Where two actions model code
\* that runs in the same microtask (an operation settling and its caller
\* resuming), only provider and stream events may fall between them, and they
\* act on promises that are already settled.

Init ==
    /\ options \in OptionSets
    /\ call = NoCall
    /\ ret = NotCalled
    /\ calcCalls = <<>>
    /\ entry \in Ops
    /\ cur = "none"
    /\ at = "idle"
    /\ tpc = 0
    /\ p = NoPromise
    /\ tresult = NoPromise
    /\ caught = NoError
    /\ hook = IdleHooks
    /\ ic = IdleCheck
    /\ inStream = NoStream
    /\ outStream = NoStream
    /\ log = <<>>
    /\ events = <<>>
    /\ relay = RelayIdle

\* An engine operation is called: it runs up to its first provider call.
Begin(op) ==
    /\ cur' = op
    /\ at' = "begin"
    /\ p' = Pending
    /\ hook' = IdleHooks
    /\ ic' = IdleCheck
    /\ inStream' = NoStream
    /\ outStream' = NoStream
    /\ events' = <<>>
    /\ log' = Append(log, Started(op))

\* The running operation's promise settles; `entries` are the provider calls
\* the operation made in the same step.
Settle(promise, entries) ==
    /\ p' = promise
    /\ cur' = "none"
    /\ at' = "idle"
    /\ log' = log \o entries \o <<Ended(cur, ResultName(cur, promise))>>

\* The caller invokes one of the operations other than transfer() directly.
DirectCall ==
    /\ entry \in Ops \ {"transfer"}
    /\ p = NoPromise
    /\ Begin(entry)
    /\ UNCHANGED <<options, pureVars, relay, entry, tpc, tresult, caught>>

\* Faulty variant: the result of integrityCheck() is not looked at.
IsValidTransferAlways(promise) == TRUE

\* const isValidTransfer = await this.integrityCheck()
IsValidTransfer(promise) == promise.value

\* Faulty variant: the catch block throws the error again.
TransferCatchRethrow(e) == Rejected(e)

\* Faulty variant: the catch block awaits a rollback that never settles.
TransferCatchHangs(e) == Pending

\* catch (e) { console.log('error', e) }: transfer() then returns normally.
TransferCatch(e) == Fulfilled(TRUE)

\* transfer(): the step just awaited was integrityCheck and it gave false.
IntegrityRefused ==
    /\ tpc >= 1
    /\ TransferSteps[tpc] = "integrityCheck"
    /\ p.state = "fulfilled"
    /\ ~IsValidTransfer(p)

\* transfer() is called, or resumes after the step it awaited has fulfilled, and
\* calls its next step.
TransferStep ==
    /\ entry = "transfer"
    /\ cur = "none"
    /\ tpc < Len(TransferSteps)
    /\ IF tpc = 0 THEN tresult = NoPromise
       ELSE tresult.state = "pending" /\ p.state = "fulfilled" /\ ~IntegrityRefused
    /\ tpc' = tpc + 1
    /\ tresult' = Pending
    /\ Begin(TransferSteps[tpc + 1])
    /\ UNCHANGED <<options, pureVars, relay, entry, caught>>

\* Faulty variant: the catch block rolls the destination back.
CatchCallsRollback(e) == <<Called("destination", "rollback")>>

\* Faulty variant: the catch block closes both providers.
CatchCallsClose(e) == <<Called("source", "close"), Called("destination", "close")>>

\* The provider calls of transfer()'s catch block: none (the rollback of the
\* destination is commented out).
CatchCalls(e) == <<>>

\* transfer() resumes after integrityCheck gave false: it throws the error that
\* names both providers, into its own catch block.
TransferRefuse ==
    /\ entry = "transfer"
    /\ cur = "none"
    /\ tresult.state = "pending"
    /\ IntegrityRefused
    /\ caught' = IntegrityError
    /\ tresult' = TransferCatch(IntegrityError)
    /\ log' = log \o CatchCalls(IntegrityError)
    /\ UNCHANGED <<options, pureVars, relay, events, entry, cur, at, tpc, p, hook, ic, inStream, outStream>>

\* transfer() resumes after the step it awaited has rejected: the catch block.
TransferFail ==
    /\ entry = "transfer"
    /\ cur = "none"
    /\ tresult.state = "pending"
    /\ p.state = "rejected"
    /\ caught' = p.reason
    /\ tresult' = TransferCatch(p.reason)
    /\ log' = log \o CatchCalls(p.reason)
    /\ UNCHANGED <<options, pureVars, relay, events, entry, cur, at, tpc, p, hook, ic, inStream, outStream>>

\* transfer() resumes after its last step has fulfilled, and returns.
TransferReturn ==
    /\ entry = "transfer"
    /\ cur = "none"
    /\ tresult.state = "pending"
    /\ tpc = Len(TransferSteps)
    /\ p.state = "fulfilled"
    /\ ~IntegrityRefused
    /\ tresult' = Fulfilled(TRUE)
    /\ UNCHANGED <<options, pureVars, relay, events, entry, cur, at, tpc, p, caught, hook, ic, inStream, outStream, log>>

\* What a provider's optional lifecycle hook may be: not defined, a function
\* that throws when called, or one that returns a promise (or a value).
HookKinds == {"absent", "throws", "async"}

HookState(kind) ==
    IF kind = "absent" THEN "absent" ELSE IF kind = "throws" THEN "threw" ELSE "pending"

\* Faulty variant: the join of Promise.allSettled, which waits for every call.
PromiseAllSettled(h) ==
    IF \E side \in Sides : h[side] = "pending" THEN "pending"
    ELSE IF \E side \in Sides : h[side] = "rejected" THEN "rejected"
    ELSE "fulfilled"

\* Promise.all over the two hook results: rejected as soon as one is, fulfilled
\* once none is left pending (an absent hook gives undefined, a plain value).
PromiseAll(h) ==
    IF \E side \in Sides : h[side] = "rejected" THEN "rejected"
    ELSE IF \A side \in Sides : h[side] \in {"absent", "fulfilled"} THEN "fulfilled"
    ELSE "pending"

\* boostrap() / close(): the array literal calls the source hook, then the
\* destination hook; a hook that throws ends the operation there, so that a
\* destination hook is then "skipped": defined, and never called.
CallHooks ==
    /\ cur \in {"boostrap", "close"}
    /\ at = "begin"
    /\ \E ks \in HookKinds, kd \in HookKinds :
         LET name == HookName(cur)
             srcCall == IF ks = "absent" THEN <<>> ELSE <<Called("source", name)>>
             dstCall == IF kd = "absent" THEN <<>> ELSE <<Called("destination", name)>>
             called == [name |-> name, source |-> HookState(ks), destination |-> HookState(kd)]
         IN IF ks = "throws"
            THEN /\ kd # "throws"
                 /\ hook' = [called EXCEPT !.destination =
                                 IF kd = "absent" THEN "absent" ELSE "skipped"]
                 /\ Settle(Rejected(ProviderError("source", name)), srcCall)
            ELSE IF kd = "throws"
            THEN /\ hook' = called
                 /\ Settle(Rejected(ProviderError("destination", name)), srcCall \o dstCall)
            ELSE IF PromiseAll(called) = "fulfilled"
            THEN /\ hook' = called
                 /\ Settle(Fulfilled(TRUE), srcCall \o dstCall)
            ELSE /\ hook' = called
                 /\ at' = "await"
                 /\ log' = log \o srcCall \o dstCall
                 /\ UNCHANGED <<cur, p>>
    /\ UNCHANGED <<options, pureVars, relay, events, entry, tpc, tresult, caught, ic, inStream, outStream>>

\* The promise a provider hook returned settles; Promise.all reacts.
SettleHook(side, res) ==
    /\ hook[side] = "pending"
    /\ hook' = [hook EXCEPT ![side] = res]
    /\ IF cur \in {"boostrap", "close"} /\ at = "await" /\ PromiseAll(hook') # "pending"
       THEN Settle(IF PromiseAll(hook') = "rejected"
                   THEN Rejected(ProviderError(side, hook.name))
                   ELSE Fulfilled(TRUE),
                   <<HookSettled(side, hook.name, res)>>)
       ELSE /\ log' = Append(log, HookSettled(side, hook.name, res))
            /\ UNCHANGED <<cur, at, p>>
    /\ UNCHANGED <<options, pureVars, relay, events, entry, tpc, tresult, caught, ic, inStream, outStream>>

\* What calling getMetadata() / getSchemas?.() can give.
FetchOutcomes(values) == {FetchFailed("nohook"), FetchFailed("threw"), Nothing} \cup values

\* Faulty variant: the catch block throws the error again.
IntegrityCatchRethrow(e) == Rejected(e)

\* catch (error) { ...; return false }
IntegrityCatch(e) == Fulfilled(FALSE)

\* await this.<side>Provider.getMetadata(): the hook is called without optional
\* chaining, so a provider that does not define it makes the call throw.
MetadataCall(side, r) ==
    IF r.kind = "nohook" THEN Threw(NotAFunction(side, "getMetadata"))
    ELSE IF r.kind = "threw" THEN Threw(ProviderError(side, "getMetadata"))
    ELSE Returned

\* await this.<side>Provider.getSchemas?.(): an undefined hook gives undefined.
SchemasCall(side, r) ==
    IF r.kind = "threw" THEN Threw(ProviderError(side, "getSchemas")) ELSE Returned

CallEntry(side, name, r) == IF r.kind = "nohook" THEN <<>> ELSE <<Called(side, name)>>

\* if (sourceMetadata && destinationMetadata) this.#assertStrapiVersionIntegrity(...)
VersionStep(sourceMetadata, destinationMetadata) ==
    IF Truthy(sourceMetadata) /\ Truthy(destinationMetadata)
    THEN assertStrapiVersionIntegrity(options.versionMatching,
                                      sourceMetadata.version, destinationMetadata.version)
    ELSE Returned

\* if (sourceSchemas && destinationSchemas) this.#assertSchemasMatching(...)
SchemaStep(sourceSchemas, destinationSchemas) ==
    IF Truthy(sourceSchemas) /\ Truthy(destinationSchemas)
    THEN assertSchemasMatching(options.schemasMatching,
                               sourceSchemas.map, destinationSchemas.map)
    ELSE Returned

FetchSourceMetadata ==
    /\ cur = "integrityCheck"
    /\ at = "begin"
    /\ \E r \in FetchOutcomes(MetadataValues) :
         LET called == MetadataCall("source", r)
         IN /\ ic' = [ic EXCEPT !.sourceMetadata = r]
            /\ IF called.threw
               THEN Settle(IntegrityCatch(called.error), CallEntry("source", "getMetadata", r))
               ELSE /\ at' = "destinationMetadata"
                    /\ log' = log \o CallEntry("source", "getMetadata", r)
                    /\ UNCHANGED <<cur, p>>
    /\ UNCHANGED <<options, pureVars, relay, events, entry, tpc, tresult, caught, hook, inStream, outStream>>

FetchDestinationMetadata ==
    /\ cur = "integrityCheck"
    /\ at = "destinationMetadata"
    /\ \E r \in FetchOutcomes(MetadataValues) :
         LET called == MetadataCall("destination", r)
             check == VersionStep(ic.sourceMetadata, r)
         IN /\ ic' = [ic EXCEPT !.destinationMetadata = r]
            /\ IF called.threw
               THEN Settle(IntegrityCatch(called.error),
                           CallEntry("destination", "getMetadata", r))
               ELSE IF check.threw
               THEN Settle(IntegrityCatch(check.error),
                           CallEntry("destination", "getMetadata", r))
               ELSE /\ at' = "sourceSchemas"
                    /\ log' = log \o CallEntry("destination", "getMetadata", r)
                    /\ UNCHANGED <<cur, p>>
    /\ UNCHANGED <<options, pureVars, relay, events, entry, tpc, tresult, caught, hook, inStream, outStream>>

FetchSourceSchemas ==
    /\ cur = "integrityCheck"
    /\ at = "sourceSchemas"
    /\ \E r \in FetchOutcomes(SchemaValues) :
         LET called == SchemasCall("source", r)
         IN /\ ic' = [ic EXCEPT !.sourceSchemas = r]
            /\ IF called.threw
               THEN Settle(IntegrityCatch(called.error), CallEntry("source", "getSchemas", r))
               ELSE /\ at' = "destinationSchemas"
                    /\ log' = log \o CallEntry("source", "getSchemas", r)
                    /\ UNCHANGED <<cur, p>>
    /\ UNCHANGED <<options, pureVars, relay, events, entry, tpc, tresult, caught, hook, inStream, outStream>>

FetchDestinationSchemas ==
    /\ cur = "integrityCheck"
    /\ at = "destinationSchemas"
    /\ \E r \in FetchOutcomes(SchemaValues) :
         LET called == SchemasCall("destination", r)
             check == SchemaStep(ic.sourceSchemas, r)
         IN /\ ic' = [ic EXCEPT !.destinationSchemas = r]
            /\ IF called.threw
               THEN Settle(IntegrityCatch(called.error),
                           CallEntry("destination", "getSchemas", r))
               ELSE IF check.threw
               THEN Settle(IntegrityCatch(check.error),
                           CallEntry("destination", "getSchemas", r))
               ELSE Settle(Fulfilled(TRUE), CallEntry("destination", "getSchemas", r))
    /\ UNCHANGED <<options, pureVars, relay, events, entry, tpc, tresult, caught, hook, inStream, outStream>>

\* What a provider's optional stream accessor may be: not defined, a function
\* that throws or rejects, one that gives no stream, one that gives a stream.
AccessorKinds == {"absent", "throws", "nothing", "stream"}

Fetched(kind) == IF kind = "stream" THEN NewStream ELSE MissingStream

\* Faulty variant: the destination stream is tested first.
StageMissingDestinationFirst(op, in, out) ==
    IF out.kind # "stream" THEN MissingStreamError(op, "destination")
    ELSE IF in.kind # "stream" THEN MissingStreamError(op, "source")
    ELSE NoError

\* if (!inStream) throw ...; if (!outStream) throw ...
StageMissing(op, in, out) ==
    IF in.kind # "stream" THEN MissingStreamError(op, "source")
    ELSE IF out.kind # "stream" THEN MissingStreamError(op, "destination")
    ELSE NoError

\* Faulty variant: the source stream is tested as soon as it is fetched.
EarlyCheckSource(op, in) ==
    IF in.kind # "stream" THEN MissingStreamError(op, "source") ELSE NoError

\* What the stage tests between its two accessor calls: nothing.
EarlyCheck(op, in) == NoError

\* const inStream = await this.sourceProvider.stream<Category>?.()
AcquireSource ==
    /\ cur \in RelayStages
    /\ at = "begin"
    /\ \E k \in AccessorKinds :
         LET name == Accessor(cur, "source")
             calls == IF k = "absent" THEN <<>> ELSE <<Called("source", name)>>
         IN IF k = "throws"
            THEN /\ Settle(Rejected(ProviderError("source", name)), calls)
                 /\ UNCHANGED inStream
            ELSE IF EarlyCheck(cur, Fetched(k)).message # NoError.message
            THEN /\ Settle(Rejected(EarlyCheck(cur, Fetched(k))), calls)
                 /\ inStream' = Fetched(k)
            ELSE /\ inStream' = Fetched(k)
                 /\ at' = "destination"
                 /\ log' = log \o calls
                 /\ UNCHANGED <<cur, p>>
    /\ UNCHANGED <<options, pureVars, relay, events, entry, tpc, tresult, caught, hook, ic, outStream>>

\* const outStream = await this.destinationProvider.get<Category>Stream?.(), the
\* two checks, and the promise executor: the listeners and the pipe.
AcquireDestination ==
    /\ cur \in RelayStages
    /\ at = "destination"
    /\ \E k \in AccessorKinds :
         LET name == Accessor(cur, "destination")
             calls == IF k = "absent" THEN <<>> ELSE <<Called("destination", name)>>
             missing == StageMissing(cur, inStream, Fetched(k))
         IN IF k = "throws"
            THEN /\ Settle(Rejected(ProviderError("destination", name)), calls)
                 /\ UNCHANGED <<inStream, outStream>>
            ELSE IF missing.message # NoError.message
            THEN /\ Settle(Rejected(missing), calls)
                 /\ outStream' = Fetched(k)
                 /\ UNCHANGED inStream
            ELSE /\ inStream' = [inStream EXCEPT !.listeners = {"error"}, !.piped = TRUE]
                 /\ outStream' = [Fetched(k) EXCEPT !.listeners = {"error", "close"}]
                 /\ at' = "relay"
                 /\ log' = log \o calls
                 /\ UNCHANGED <<cur, p>>
    /\ UNCHANGED <<options, pureVars, relay, events, entry, tpc, tresult, caught, hook, ic>>

\* Faulty variant: the source's 'error' is wired to resolve.
ListenerResolveOnSourceError(side, ev, n) ==
    IF ev = "error" /\ side = "destination"
    THEN Rejected(StreamError(side, n))
    ELSE Fulfilled(TRUE)

\* .on('error', reject) on both streams, .on('close', resolve) on the destination.
Listener(side, ev, n) ==
    IF ev = "error" THEN Rejected(StreamError(side, n)) ELSE Fulfilled(TRUE)

\* A connected stream emits an event the engine listens to. Settling a promise
\* that is already settled does nothing.
Emit(side, ev) ==
    LET s == IF side = "source" THEN inStream ELSE outStream
        n == Len(s.emitted) + 1
    IN /\ s.kind = "stream"
       /\ ev \in s.listeners
       /\ n <= MaxEvents
       /\ IF side = "source"
          THEN inStream' = [inStream EXCEPT !.emitted = Append(@, ev)] /\ UNCHANGED outStream
          ELSE outStream' = [outStream EXCEPT !.emitted = Append(@, ev)] /\ UNCHANGED inStream
       /\ events' = Append(events, StreamEvent(side, ev, n))
       /\ IF p.state = "pending"
          THEN Settle(Listener(side, ev, n), <<>>)
          ELSE UNCHANGED <<cur, at, p, log>>
       /\ UNCHANGED <<options, pureVars, relay, entry, tpc, tresult, caught, hook, ic>>

\* Faulty variant: transferMedia() asks both providers for a media stream.
MediaCallsStreams ==
    <<Called("source", "streamAssets"), Called("destination", "getAssetsStream")>>

\* The provider calls of transferMedia(): none.
MediaCalls == <<>>

\* transferMedia(): a warning, and a promise that is resolved at once.
TransferMedia ==
    /\ cur = "transferMedia"
    /\ at = "begin"
    /\ Settle(Fulfilled(TRUE), MediaCalls)
    /\ UNCHANGED <<options, pureVars, relay, events, entry, tpc, tresult, caught, hook, ic, inStream, outStream>>

Next ==
    \/ DirectCall
    \/ TransferStep
    \/ TransferRefuse
    \/ TransferFail
    \/ TransferReturn
    \/ CallHooks
    \/ \E side \in Sides, res \in {"fulfilled", "rejected"} : SettleHook(side, res)
    \/ FetchSourceMetadata
    \/ FetchDestinationMetadata
    \/ FetchSourceSchemas
    \/ FetchDestinationSchemas
    \/ AcquireSource
    \/ AcquireDestination
    \/ \E side \in Sides, ev \in {"error", "close"} : Emit(side, ev)
    \/ TransferMedia

Spec == Init /\ [][Next]_vars

\* The steps the engine takes by itself: a call by the caller, and the
\* continuations of its awaits once what they await has settled. The event
\* loop runs each of them as soon as it is ready.
EngineStep ==
    \/ DirectCall
    \/ TransferStep
    \/ TransferRefuse
    \/ TransferFail
    \/ TransferReturn
    \/ CallHooks
    \/ FetchSourceMetadata
    \/ FetchDestinationMetadata
    \/ FetchSourceSchemas
    \/ FetchDestinationSchemas
    \/ AcquireSource
    \/ AcquireDestination
    \/ TransferMedia

\* A provider's pending hook call settles.
HookSettles == \E side \in Sides, res \in {"fulfilled", "rejected"} : SettleHook(side, res)

\* A stage whose streams have been silent so far sees a first event.
FirstEvent == events = <<>> /\ \E side \in Sides, ev \in {"error", "close"} : Emit(side, ev)

InitLive ==
    /\ Init
    /\ options.versionMatching = "exact"
    /\ options.schemasMatching = NoStrategy

\* The engine on an event loop that runs every ready continuation, with
\* providers whose hook calls all settle and whose piped streams all end up
\* emitting an event the stage listens to.
SpecLive ==
    /\ InitLive
    /\ [][Next]_vars
    /\ WF_vars(EngineStep)
    /\ WF_vars(HookSettles)
    /\ WF_vars(FirstEvent)

\* -------------------------------------------------- claims C1-C6 and C10

\* The history holds entry e before position i.
Before(i, e) == \E j \in 1..(i - 1) : log[j] = e

InLog(e) == \E i \in 1..Len(log) : log[i] = e

IsStepEntry(e) == e.t \in {"start", "end"}

\* The operations started and ended so far, in order.
StepHistory == SelectSeq(log, IsStepEntry)

IsPrefix(s, t) == Len(s) <= Len(t) /\ \A i \in 1..Len(s) : s[i] = t[i]

\* A stage operation starts, or a stream accessor of a provider is invoked.
IsStageActivity(e) ==
    \/ e.t = "start" /\ e.what \in RelayStages \cup {"transferMedia"}
    \/ e.t = "call" /\ e.what \in StreamAccessors

BootstrapHookFailed ==
    /\ hook.name = "bootstrap"
    /\ \E side \in Sides : hook[side] \in {"threw", "rejected"}

\* C1: within transfer(), no stage operation starts and no stream accessor is
\* invoked unless boostrap() has fulfilled and integrityCheck() has returned
\* true before; and when a bootstrap hook fails, boostrap() rejects and
\* integrityCheck is never started.
C1_StagesGated ==
    entry = "transfer" =>
        /\ \A i \in 1..Len(log) :
             IsStageActivity(log[i]) =>
                /\ Before(i, Ended("boostrap", "fulfilled"))
                /\ Before(i, Ended("integrityCheck", "true"))
        /\ \A i \in 1..Len(log) :
             log[i] = Started("integrityCheck") => Before(i, Ended("boostrap", "fulfilled"))
        /\ (BootstrapHookFailed /\ cur # "boostrap") => InLog(Ended("boostrap", "rejected"))
        /\ InLog(Ended("boostrap", "rejected")) =>
             /\ ~InLog(Started("integrityCheck"))
             /\ \A i \in 1..Len(log) : log[i].what \notin {"getMetadata", "getSchemas"}

\* C1 witness: transfer() has reached its last stage and called its accessor.
C1_Witness ==
    /\ entry = "transfer"
    /\ InLog(Called("source", "streamConfiguration"))

\* C1 witness: a bootstrap hook has rejected and transfer() has returned.
C1_WitnessHookFailed ==
    /\ entry = "transfer"
    /\ BootstrapHookFailed
    /\ tresult.state = "fulfilled"

NoStepFailed ==
    \A i \in 1..Len(log) : log[i].t = "end" => log[i].res \in {"fulfilled", "true"}

\* The run of transfer() the steps of which all succeed.
FullRun ==
    <<Started("boostrap"), Ended("boostrap", "fulfilled"),
      Started("integrityCheck"), Ended("integrityCheck", "true"),
      Started("transferSchemas"), Ended("transferSchemas", "fulfilled"),
      Started("transferEntities"), Ended("transferEntities", "fulfilled"),
      Started("transferMedia"), Ended("transferMedia", "fulfilled"),
      Started("transferLinks"), Ended("transferLinks", "fulfilled"),
      Started("transferConfiguration"), Ended("transferConfiguration", "fulfilled"),
      Started("close"), Ended("close", "fulfilled")>>

RelayJustFulfilled ==
    /\ cur = "none"
    /\ log # <<>>
    /\ log[Len(log)].t = "end"
    /\ log[Len(log)].what \in RelayStages
    /\ log[Len(log)].res = "fulfilled"

\* C2: as long as no step fails, transfer() performs bootstrap, integrityCheck,
\* transferSchemas, transferEntities, transferMedia, transferLinks,
\* transferConfiguration, close, each once and in that order, each started only
\* after the one before has ended (a relay stage: after its destination stream
\* emitted 'close'), and it returns only after all of them.
C2_StepSequence ==
    (entry = "transfer" /\ NoStepFailed) =>
        /\ IsPrefix(StepHistory, FullRun)
        /\ tresult.state = "fulfilled" => StepHistory = FullRun
        /\ RelayJustFulfilled =>
             \E i \in 1..Len(outStream.emitted) : outStream.emitted[i] = "close"

\* C2 witness: transfer() has returned after a run in which no step failed.
C2_Witness ==
    /\ entry = "transfer"
    /\ NoStepFailed
    /\ tresult.state = "fulfilled"
    /\ caught = NoError

\* Each stage of `order` starts only after the stage before it has fulfilled.
StagesFollow(order) ==
    \A k \in 2..Len(order) :
        \A i \in 1..Len(log) :
            log[i] = Started(order[k]) => Before(i, Ended(order[k - 1], "fulfilled"))

\* C3 as stated: the five data stages run in the order schemas, entities,
\* links, media, configuration; the links stage has completed before the media
\* stage begins.
C3_AsStated ==
    entry = "transfer" =>
        StagesFollow(<<"transferSchemas", "transferEntities", "transferLinks",
                       "transferMedia", "transferConfiguration">>)

\* C3 amended: the five data stages run in the order schemas, entities, media,
\* links, configuration; the media stage has completed before the links stage
\* begins, and the links stage before the configuration stage.
C3_StageOrder ==
    entry = "transfer" =>
        StagesFollow(<<"transferSchemas", "transferEntities", "transferMedia",
                       "transferLinks", "transferConfiguration">>)

\* C3 witness: the links stage has started, after the media stage.
C3_Witness ==
    /\ entry = "transfer"
    /\ InLog(Started("transferMedia"))
    /\ InLog(Started("transferLinks"))

\* C4: the promise transfer() returns is never rejected; whatever error
\* reaches its catch block, the promise is fulfilled.
C4_NeverRejects ==
    entry = "transfer" =>
        /\ tresult.state \in {"none", "pending", "fulfilled"}
        /\ caught.message # NoError.message => tresult.state = "fulfilled"

\* C4 witness: a close hook has rejected, the last of the failures transfer()
\* can meet, and transfer() has returned.
C4_Witness ==
    /\ entry = "transfer"
    /\ caught.message = ProviderError("source", "close").message
    /\ caught.args[2] = "close"
    /\ tresult.state = "fulfilled"

\* C4 witness: a stream 'error' event has failed a stage inside transfer().
C4_WitnessStreamError ==
    /\ entry = "transfer"
    /\ caught.message = StreamError("source", 1).message
    /\ tresult.state = "fulfilled"

IntegrityCheckDone ==
    /\ cur = "none"
    /\ log # <<>>
    /\ log[Len(log)].t = "end"
    /\ log[Len(log)].what = "integrityCheck"

\* A fetch threw: a hook threw or rejected, or getMetadata was called on a
\* provider that does not define it.
SomeFetchThrew ==
    \/ \E f \in DOMAIN ic : ic[f].kind = "threw"
    \/ ic.sourceMetadata.kind = "nohook"
    \/ ic.destinationMetadata.kind = "nohook"

VersionCheckPerformed == Truthy(ic.sourceMetadata) /\ Truthy(ic.destinationMetadata)

SchemaCheckPerformed == Truthy(ic.sourceSchemas) /\ Truthy(ic.destinationSchemas)

PerformedChecksPassed ==
    /\ VersionCheckPerformed =>
         ~assertStrapiVersionIntegrity(options.versionMatching,
                                       ic.sourceMetadata.version,
                                       ic.destinationMetadata.version).threw
    /\ SchemaCheckPerformed =>
         ~assertSchemasMatching(options.schemasMatching,
                                ic.sourceSchemas.map, ic.destinationSchemas.map).threw

\* C5: integrityCheck() never rejects; it returns false whenever a fetch throws
\* or a check fails, and true exactly when no fetch threw and every check that
\* was performed passed.
C5_IntegrityBoolean ==
    /\ \A i \in 1..Len(log) :
         (log[i].t = "end" /\ log[i].what = "integrityCheck") => log[i].res \in {"true", "false"}
    /\ IntegrityCheckDone =>
         /\ p.state = "fulfilled"
         /\ p.value <=> (~SomeFetchThrew /\ PerformedChecksPassed)

\* C5 witness: integrityCheck() has returned false because the schema check,
\* performed on two schema maps, failed.
C5_Witness ==
    /\ IntegrityCheckDone
    /\ ~SomeFetchThrew
    /\ SchemaCheckPerformed
    /\ ~PerformedChecksPassed
    /\ p = Fulfilled(FALSE)

\* C5 witness: integrityCheck() has returned false because a fetch threw.
C5_WitnessFetchThrew ==
    /\ IntegrityCheckDone
    /\ ic.destinationSchemas.kind = "threw"
    /\ p = Fulfilled(FALSE)

\* C6: metadata and schema maps are optional on both providers: a provider
\* without a getMetadata / getSchemas hook, or whose hook returns nothing, only
\* makes the corresponding check be skipped; unless a hook itself throws,
\* integrityCheck() returns true when the checks that remain pass.
C6_AbsenceIsNoError ==
    (/\ IntegrityCheckDone
     /\ \A f \in DOMAIN ic : ic[f].kind # "threw"
     /\ PerformedChecksPassed) => p = Fulfilled(TRUE)

DirectStageSettled == entry \in RelayStages /\ p.state \in {"fulfilled", "rejected"}

NothingConnected ==
    /\ inStream.listeners = {} /\ ~inStream.piped
    /\ outStream.listeners = {} /\ ~outStream.piped

MissingErrorsDistinct ==
    \A o1 \in RelayStages, o2 \in RelayStages, s1 \in Sides, s2 \in Sides :
        (<<o1, s1>> # <<o2, s2>>) =>
            MissingStreamError(o1, s1).message # MissingStreamError(o2, s2).message

\* C10 as stated: a relay stage called directly rejects with its category's
\* 'source stream is missing' error when the source provider yields no stream,
\* and with its 'destination stream is missing' error when the source stream
\* exists and the destination provider yields none; nothing is piped and no
\* listener is attached; the eight errors are pairwise distinct.
C10_AsStated ==
    /\ (DirectStageSettled /\ inStream.kind = "missing") =>
          /\ p.state = "rejected"
          /\ p.reason.message = MissingStreamError(entry, "source").message
          /\ NothingConnected
    /\ (DirectStageSettled /\ inStream.kind = "stream" /\ outStream.kind = "missing") =>
          /\ p.state = "rejected"
          /\ p.reason.message = MissingStreamError(entry, "destination").message
          /\ NothingConnected
    /\ MissingErrorsDistinct

\* C10 amended: a relay stage called directly, whose destination accessor call
\* does not itself throw or reject, rejects with its category's 'source stream
\* is missing' error when the source provider yields no stream, and with its
\* 'destination stream is missing' error when the source stream exists and the
\* destination provider yields none; in both cases, and also when the
\* destination accessor throws, nothing is piped and no listener is attached;
\* the eight errors are pairwise distinct.
C10_MissingStreams ==
    /\ (DirectStageSettled /\ inStream.kind = "missing") =>
          /\ p.state = "rejected"
          /\ outStream.kind # "unfetched" =>
                p.reason.message = MissingStreamError(entry, "source").message
          /\ NothingConnected
    /\ (DirectStageSettled /\ inStream.kind = "stream" /\ outStream.kind = "missing") =>
          /\ p.state = "rejected"
          /\ p.reason.message = MissingStreamError(entry, "destination").message
          /\ NothingConnected
    /\ MissingErrorsDistinct

\* C10 witness: transferLinks(), called directly, got no source stream and a
\* destination stream, and has rejected with the source-side error.
C10_Witness ==
    /\ entry = "transferLinks"
    /\ inStream.kind = "missing"
    /\ outStream.kind = "stream"
    /\ p.state = "rejected"
    /\ p.reason.message = "Unable to transfer links, source stream is missing"

\* ------------------------------------------------------------ claims C7-C9

VersionCheckRan == call.fn = "assertStrapiVersionIntegrity" /\ ret # NotCalled

\* The i-th dot-separated component of a version, undefined past the end.
Component(v, i) == IF i <= Len(Split(v)) THEN Split(v)[i] ELSE NoVersion

IsVersionMismatch(r) ==
    /\ r.threw
    /\ r.error = VersionMismatch(options.versionMatching,
                                 call.sourceVersion, call.destinationVersion)

\* C7 as stated: under 'exact' and 'ignore', the check passes when either
\* version is absent (undefined) or the strategy is 'ignore'; with both version
\* strings present and 'exact' it passes iff the two strings are identical and
\* fails with the mismatch error otherwise.
C7_AsStated ==
    (VersionCheckRan /\ options.versionMatching \in {"exact", "ignore"}) =>
        LET sv == call.sourceVersion
            dv == call.destinationVersion
        IN IF sv = NoVersion \/ dv = NoVersion \/ options.versionMatching = "ignore"
           THEN ~ret.threw
           ELSE /\ (~ret.threw) <=> (sv = dv)
                /\ ret.threw => IsVersionMismatch(ret)

\* C7 amended: under 'exact' and 'ignore', the check passes when either version
\* is absent or the empty string, or the strategy is 'ignore'; with two
\* non-empty version strings and 'exact' it passes iff the two strings are
\* identical and fails with the mismatch error otherwise.
C7_ExactIgnore ==
    (VersionCheckRan /\ options.versionMatching \in {"exact", "ignore"}) =>
        LET sv == call.sourceVersion
            dv == call.destinationVersion
        IN IF sv \in {NoVersion, <<>>} \/ dv \in {NoVersion, <<>>}
              \/ options.versionMatching = "ignore"
           THEN ~ret.threw
           ELSE /\ (~ret.threw) <=> (sv = dv)
                /\ ret.threw => IsVersionMismatch(ret)

\* C7 witness: 'exact' has been applied to two different non-empty versions and
\* has thrown.
C7_Witness ==
    /\ VersionCheckRan
    /\ options.versionMatching = "exact"
    /\ call.sourceVersion = <<"1", ".", "1">>
    /\ call.destinationVersion = <<"1", ".", "1", "1">>
    /\ ret.threw

RequiredComponents(strategy) ==
    IF strategy = "major" THEN {1}
    ELSE IF strategy = "minor" THEN {1, 2}
    ELSE {1, 2, 3}

\* C8: under 'major', 'minor' and 'patch', for two present version strings the
\* check passes iff the components at index 0 / 0,1 / 0,1,2 are pairwise equal
\* (versions of fewer or more than three components included), and otherwise
\* fails with an error holding both version strings and the strategy name.
C8_PositionalPrefix ==
    (/\ VersionCheckRan
     /\ options.versionMatching \in {"major", "minor", "patch"}
     /\ ~Falsy(call.sourceVersion)
     /\ ~Falsy(call.destinationVersion)) =>
        /\ (~ret.threw) <=>
             \A i \in RequiredComponents(options.versionMatching) :
                Component(call.sourceVersion, i) = Component(call.destinationVersion, i)
        /\ ret.threw => IsVersionMismatch(ret)

SchemaCheckRan == call.fn = "assertSchemasMatching" /\ ret # NotCalled

UnionOfKeys == DOMAIN call.sourceSchemas \cup DOMAIN call.destinationSchemas

InvalidTypes ==
    {k \in UnionOfKeys :
        ~Verdict(calculateSchemaDiffs(Lookup(call.sourceSchemas, k),
                                      Lookup(call.destinationSchemas, k)),
                 IF options.schemasMatching = NoStrategy THEN "strict"
                 ELSE options.schemasMatching)}

\* C9: the schema check fails iff some type name of the union of both maps' keys
\* has a false verdict under the configured strategy (default 'strict'); the
\* diff calculator is invoked exactly once per type name of the union; on
\* failure the payload holds that type's diff list for every invalid type name
\* and for no valid one.
C9_SchemaIntegrity ==
    SchemaCheckRan =>
        /\ ret.threw <=> InvalidTypes # {}
        /\ {calcCalls[i] : i \in 1..Len(calcCalls)} = UnionOfKeys
        /\ Len(calcCalls) = Cardinality(UnionOfKeys)
        /\ ret.threw =>
             /\ ret.error.message = SchemaMismatch(<<>>).message
             /\ DOMAIN ret.error.args[1] = InvalidTypes
             /\ \A k \in InvalidTypes :
                  ret.error.args[1][k] =
                     SchemaDiffList(Lookup(call.sourceSchemas, k),
                                    Lookup(call.destinationSchemas, k))

\* C9 witness: a type held by the destination map only is the one invalid type
\* next to a valid one, and the check has failed.
C9_Witness ==
    /\ SchemaCheckRan
    /\ ret.threw
    /\ Cardinality(UnionOfKeys) = 2
    /\ Cardinality(InvalidTypes) = 1
    /\ \E k \in InvalidTypes : k \notin DOMAIN call.sourceSchemas

\* ------------------------------------------- the data flow of one stage

\* inStream.pipe(outStream) hands the items over inside the stream library:
\* each 'data' of the source is written to the destination; write() answers
\* false once the destination buffers highWaterMark items, which pauses the
\* source until the destination has emptied its buffer and emits 'drain'; the
\* source's 'end' ends the destination, which emits 'close' when it has
\* handled everything. The items are numbered in the order of production.

\* Faulty variant: the engine forwards every 'data' event to write() itself.
ConnectionDataListener == "data"

\* How a relay stage connects its streams: inStream.pipe(outStream).
Connection == "pipe"

\* The first n items of the source.
Items(n) == [i \in 1..n |-> i]

\* The two streams right after pipe(): the source is flowing.
InitRelay ==
    /\ options \in {o \in OptionSets : o.versionMatching = "exact" /\ o.schemasMatching = NoStrategy}
    /\ call = NoCall
    /\ ret = NotCalled
    /\ calcCalls = <<>>
    /\ EngineIdle
    /\ \E total \in 0..MaxItems, highWaterMark \in 1..MaxHighWaterMark :
         relay = [RelayIdle EXCEPT !.total = total, !.highWaterMark = highWaterMark,
                                   !.flowing = TRUE]

\* The source emits 'data' with its next item, which is written to the
\* destination; a write that fills the buffer pauses a piped source.
RelayData ==
    /\ relay.flowing
    /\ relay.read < relay.total
    /\ ~relay.ended
    /\ LET item == relay.read + 1
           buffer == Append(relay.buffer, item)
           accepts == Len(buffer) < relay.highWaterMark
       IN relay' = [relay EXCEPT !.read = item,
                                 !.buffer = buffer,
                                 !.needDrain = @ \/ ~accepts,
                                 !.flowing = IF Connection = "pipe" THEN accepts ELSE TRUE]
    /\ UNCHANGED <<options, pureVars, engineVars>>

\* The destination handles the oldest item it buffers; when that empties the
\* buffer after a refused write it emits 'drain', and the pipe resumes the
\* source.
RelayWrite ==
    /\ relay.buffer # <<>>
    /\ LET drained == Len(relay.buffer) = 1 /\ relay.needDrain
       IN relay' = [relay EXCEPT !.accepted = Append(@, Head(relay.buffer)),
                                 !.buffer = Tail(@),
                                 !.needDrain = @ /\ ~drained,
                                 !.flowing = @ \/ drained]
    /\ UNCHANGED <<options, pureVars, engineVars>>

\* The source has handed over its last item and emits 'end': the pipe ends
\* the destination.
RelayEnd ==
    /\ relay.flowing
    /\ relay.read = relay.total
    /\ ~relay.ended
    /\ relay' = [relay EXCEPT !.ended = TRUE]
    /\ UNCHANGED <<options, pureVars, engineVars>>

\* The ended destination has handled every item it buffered: 'close'.
RelayClose ==
    /\ relay.ended
    /\ relay.buffer = <<>>
    /\ ~relay.closed
    /\ relay' = [relay EXCEPT !.closed = TRUE]
    /\ UNCHANGED <<options, pureVars, engineVars>>

NextRelay == RelayData \/ RelayWrite \/ RelayEnd \/ RelayClose

SpecRelay == InitRelay /\ [][NextRelay]_vars

\* --------------------------------------------------------- claims C11-C19

\* Both streams of the relay stage exist and carry the engine's listeners.
Connected ==
    /\ inStream.kind = "stream"
    /\ outStream.kind = "stream"
    /\ "error" \in inStream.listeners
    /\ {"error", "close"} \subseteq outStream.listeners

\* The stage's promise is what the first event of its streams makes it.
SettledByFirstEvent ==
    IF events[1].ev = "close"
    THEN events[1].side = "destination" /\ p.state = "fulfilled"
    ELSE p.state = "rejected" /\ p.reason = StreamError(events[1].side, events[1].n)

\* C11: a relay stage whose two streams exist stays pending until one of them
\* emits an event, and is then settled for good by the first event: fulfilled
\* when that is the destination's 'close', rejected with the error of the first
\* 'error' otherwise, whatever 'close' or 'error' events follow.
C11_SettledOnceByFirstEvent ==
    Connected =>
        IF events = <<>> THEN p.state = "pending" ELSE SettledByFirstEvent

\* C11 witness: a stage rejected by a first 'error' whose destination emitted
\* 'close' afterwards.
C11_Witness ==
    /\ Connected
    /\ Len(events) >= 2
    /\ events[1].ev = "error"
    /\ \E i \in 2..Len(events) : events[i] = StreamEvent("destination", "close", 1)
    /\ p.state = "rejected"

\* boostrap() or close() has called the hooks, and `p` is its promise.
HooksOperation == hook.name # "none"

\* Index in the log of the start of the operation last started.
LastStart == CHOOSE i \in 1..Len(log) : log[i].t = "start" /\ \A j \in (i + 1)..Len(log) : log[j].t # "start"

\* Every hook the operation called was called before any of them settled.
HooksIssuedTogether ==
    \A i \in LastStart..Len(log), j \in LastStart..Len(log) :
        (log[i].t = "call" /\ log[j].t = "settle") => i < j

C13_EveryCloseHookInvoked ==
    HooksOperation =>
        /\ hook.name = "close" => \A side \in Sides : hook[side] # "skipped"
        /\ p.state = "rejected" => \E side \in Sides : hook[side] \in {"threw", "rejected"}

C14_WitnessDelivered ==
    /\ relay.closed
    /\ relay.total > relay.highWaterMark
    /\ relay.accepted = Items(relay.total)

\* Entry i of the history is the failure of a step.
StepFailedAt(i) == log[i].t = "end" /\ log[i].res \in {"rejected", "false"}

\* C15: once a step of transfer() has failed, no operation is started (no
\* later stage, and not the failed step again) and no hook or accessor of
\* either provider is called, a rollback of the destination included; the only
\* thing that may still happen is that a hook call left in flight settles.
C15_AbortsWithoutCompensation ==
    entry = "transfer" =>
        /\ \A i \in 1..Len(log) :
             StepFailedAt(i) => \A j \in (i + 1)..Len(log) : log[j].t = "settle"
        /\ \A i \in 1..Len(log), j \in 1..Len(log) :
             (log[i].t = "start" /\ log[j] = log[i]) => i = j
        /\ (\E i \in 1..Len(log) : StepFailedAt(i)) => cur = "none"

\* C15 witness: transfer() has returned after its entities stage failed on a
\* stream error, the schemas stage having written before.
C15_Witness ==
    /\ entry = "transfer"
    /\ InLog(Ended("transferSchemas", "fulfilled"))
    /\ InLog(Ended("transferEntities", "rejected"))
    /\ caught.message = StreamError("destination", 1).message
    /\ tresult.state = "fulfilled"

\* C15 witness: transfer() has returned after integrityCheck refused.
C15_WitnessRefused ==
    /\ entry = "transfer"
    /\ InLog(Ended("integrityCheck", "false"))
    /\ tresult.state = "fulfilled"

\* C16: transferMedia(), called on its own or by transfer(), ends fulfilled
\* right after it started, without a call to a hook or an accessor of either
\* provider in between; on its own it leaves the hooks, the fetched metadata
\* and schemas, and the streams as they were, and its promise is never
\* rejected.
C16_MediaIsNoOp ==
    /\ \A i \in 1..Len(log) :
         (log[i] = Started("transferMedia") /\ i < Len(log)) =>
            log[i + 1] = Ended("transferMedia", "fulfilled")
    /\ entry = "transferMedia" =>
         /\ IsPrefix(log, <<Started("transferMedia"), Ended("transferMedia", "fulfilled")>>)
         /\ p.state # "rejected"
         /\ hook = IdleHooks
         /\ ic = IdleCheck
         /\ inStream = NoStream
         /\ outStream = NoStream
         /\ events = <<>>

\* C16 witness: transferMedia(), called on its own, has resolved.
C16_Witness ==
    /\ entry = "transferMedia"
    /\ p.state = "fulfilled"
    /\ log = <<Started("transferMedia"), Ended("transferMedia", "fulfilled")>>

\* The five data stages, as transfer() names them.
DataStages == RelayStages \cup {"transferMedia"}

\* Entry i of the history is close() starting or a close hook being called.
IsCloseActivity(i) ==
    \/ log[i] = Started("close")
    \/ log[i].t = "call" /\ log[i].what = HookName("close")

\* A step of transfer() before close() has failed.
StepBeforeCloseFailed ==
    \E i \in 1..Len(log) : StepFailedAt(i) /\ log[i].what # "close"

\* C17: within transfer(), close() starts and a close hook is called only
\* after each of the five stages has fulfilled; when bootstrap, the integrity
\* check or a stage has failed, no close hook of either provider is called,
\* up to and after the return of transfer().
C17_CloseOnlyAfterSuccess ==
    entry = "transfer" =>
        /\ \A i \in 1..Len(log) :
             IsCloseActivity(i) => \A stage \in DataStages : Before(i, Ended(stage, "fulfilled"))
        /\ StepBeforeCloseFailed => \A i \in 1..Len(log) : ~IsCloseActivity(i)

\* C17 witness: both providers were bootstrapped, a stage failed, and
\* transfer() has returned.
C17_Witness ==
    /\ entry = "transfer"
    /\ InLog(Called("source", HookName("boostrap")))
    /\ InLog(Called("destination", HookName("boostrap")))
    /\ InLog(Ended("transferLinks", "rejected"))
    /\ tresult.state = "fulfilled"

\* C17 witness: the close hooks were called, after the five stages.
C17_WitnessClosed ==
    /\ entry = "transfer"
    /\ InLog(Called("source", HookName("close")))
    /\ InLog(Called("destination", HookName("close")))

DestinationAccessorCalled == InLog(Called("destination", Accessor(entry, "destination")))

\* C18: a relay stage calls the source accessor before the destination
\* accessor, and tests neither result before both calls are over: a stage that
\* has settled without a source stream has gone through the destination
\* accessor (called it, where the provider defines one); a writable stream the
\* accessor returned is as it was returned, with no listener, no pipe and no
\* event; and when the destination gave no stream either, the error is the
\* source-side one.
C18_AccessorsBeforeChecks ==
    entry \in RelayStages =>
        /\ \A i \in 1..Len(log), j \in 1..Len(log) :
             (/\ log[i] = Called("source", Accessor(entry, "source"))
              /\ log[j] = Called("destination", Accessor(entry, "destination"))) => i < j
        /\ DestinationAccessorCalled => inStream.kind # "unfetched"
        /\ (DirectStageSettled /\ inStream.kind = "missing") =>
             /\ outStream.kind # "unfetched" \/ DestinationAccessorCalled
             /\ outStream.kind = "stream" => (outStream = NewStream /\ events = <<>>)
             /\ outStream.kind = "missing" =>
                   p.reason.message = MissingStreamError(entry, "source").message

\* C18 witness: the source gave no stream, the destination accessor was called
\* and returned a stream, and the stage has rejected.
C18_Witness ==
    /\ DirectStageSettled
    /\ inStream.kind = "missing"
    /\ DestinationAccessorCalled
    /\ outStream = NewStream
    /\ p.state = "rejected"

\* C18 witness: neither provider gave a stream, both accessors having been
\* called.
C18_WitnessBothMissing ==
    /\ DirectStageSettled
    /\ inStream.kind = "missing"
    /\ outStream.kind = "missing"
    /\ InLog(Called("source", Accessor(entry, "source")))
    /\ DestinationAccessorCalled
    /\ p.reason.message = MissingStreamError(entry, "source").message

\* A relay stage with both streams is settled exactly when one of them has
\* emitted 'error' or the destination 'close'; while none has, the stage and
\* the transfer() that awaits it are pending and the engine has no step of
\* its own to take.
SettledIffEvent ==
    Connected =>
        /\ p.state # "pending" <=> events # <<>>
        /\ events = <<>> =>
             /\ entry = "transfer" => tresult.state = "pending"
             /\ ~ENABLED EngineStep

\* C19: a relay stage is settled exactly when its destination has emitted
\* 'close' or one of its streams 'error', and until then nothing but such an
\* event lets the engine go on (no timeout, no abort); when every hook call
\* settles and every started stage sees such an event, transfer() returns.
C19_Termination ==
    /\ []SettledIffEvent
    /\ (entry = "transfer") ~> (tresult.state = "fulfilled")

\* C19 witness: inside transfer(), a stage waits for the first event of its
\* streams.
C19_Witness ==
    /\ entry = "transfer"
    /\ Connected
    /\ events = <<>>
    /\ tresult.state = "pending"

\* C19 witness: transfer() has returned after every stage saw its
\* destination close.
C19_WitnessReturned ==
    /\ entry = "transfer"
    /\ tresult.state = "fulfilled"
    /\ InLog(Ended("transferConfiguration", "fulfilled"))

====
